---------------------------- MODULE Spec2Model ----------------------------
(***************************************************************************)
(* A model of the go-trie package: the rune-keyed Trie of trie.go and the  *)
(* hyphenation ValueTrie of value_trie.go.                                 *)
(*                                                                         *)
(* A Go string is a sequence of bytes.  The tries are keyed by runes that  *)
(* are decoded from those bytes, so the model keeps both levels: inputs    *)
(* are byte sequences (the UTF-8 encodings of code-point sequences) and a  *)
(* node is named by the sequence of runes on its path from the root.       *)
(* A trie is a function from the paths of its nodes to the nodes' fields;  *)
(* the children map of node p is the set of runes r with p \o <<r>> a node.*)
(***************************************************************************)
EXTENDS Integers, Sequences, FiniteSets, TLC

\* ------------------------------------------------------------------ bounds
\* Longest input string, in code points.
MaxLen == 2
\* Largest trie the environment builds, in nodes below the root.
MaxNodes == 3
\* Longest hyphenation pattern, in code points (digits included).
MaxPatLen == 2
\* Largest ValueTrie the environment builds, in nodes below the root.
MaxVNodes == 2
\* Longest of the patterns that are longer than the channel's capacity.
MaxLongPat == 42

\* The code points of the inputs: 'a' (one byte) and U+00E9 (two bytes).
Runes == {97, 233}

\* The values a caller attaches with AddValue; Nil is Go's nil interface{}.
Nil == "nil"
Values == {Nil, "v1"}

\* ------------------------------------------------------------ UTF-8 layer
\* utf8.RuneLen: the number of bytes of the encoding of r.
RuneLen(r) == IF r < 128 THEN 1 ELSE IF r < 2048 THEN 2 ELSE 3

\* utf8.EncodeRune: the bytes of r.
EncodeRune(r) ==
    IF r < 128 THEN <<r>>
    ELSE IF r < 2048 THEN <<192 + (r \div 64), 128 + (r % 64)>>
    ELSE <<224 + (r \div 4096), 128 + ((r \div 64) % 64), 128 + (r % 64)>>

\* strings.Reader.ReadRune / the decoding step of `range s`: the first rune
\* of a non-empty, well-formed byte sequence and its width.
DecodeRune(b) ==
    IF b[1] < 128 THEN [rune |-> b[1], size |-> 1]
    ELSE IF b[1] < 224
         THEN [rune |-> (b[1] - 192) * 64 + (b[2] - 128), size |-> 2]
         ELSE [rune |-> (b[1] - 224) * 4096 + (b[2] - 128) * 64 + (b[3] - 128),
               size |-> 3]

\* The bytes that follow the first rune of b.
DropRune(b) == SubSeq(b, DecodeRune(b).size + 1, Len(b))

\* The runes of a string, in order.
RECURSIVE RunesOf(_)
RunesOf(b) ==
    IF b = <<>> THEN <<>> ELSE <<DecodeRune(b).rune>> \o RunesOf(DropRune(b))

\* A Go string literal: the UTF-8 bytes of a sequence of code points.
RECURSIVE EncodeString(_)
EncodeString(rs) ==
    IF rs = <<>> THEN <<>> ELSE EncodeRune(Head(rs)) \o EncodeString(Tail(rs))

\* `for pos, r := range s`: the (byte offset, rune) pairs of s from offset pos.
RECURSIVE RangeFrom(_, _)
RangeFrom(b, pos) ==
    IF b = <<>> THEN <<>>
    ELSE <<[pos |-> pos, rune |-> DecodeRune(b).rune]>>
         \o RangeFrom(DropRune(b), pos + DecodeRune(b).size)

RangeString(s) == RangeFrom(s, 0)

\* The slice s[lo:hi] of a Go string (0-based, hi exclusive).
Slice(s, lo, hi) == SubSeq(s, lo + 1, hi)

\* ------------------------------------------------------------- input sets
RuneSeqs(n) == UNION {[1..k -> Runes] : k \in 0..n}
\* The non-empty input strings and the empty one.
Strings == {EncodeString(rs) : rs \in RuneSeqs(MaxLen) \ {<<>>}}
Inputs == Strings \cup {<<>>}

\* ------------------------------------------------------------------- state
VARIABLES
    trie,     \* the Trie of trie.go: node path -> [leaf, value]
    last,     \* the last public call on trie and what it returned
    vtrie,    \* the ValueTrie of value_trie.go: node path -> [leaf, value]
    pat,      \* the argument s of the current (or last) AddPatternString
    iter,     \* its channel: the buffered values, closed or not
    prod,     \* its goroutine: where it is and the index of its range loop
    cons,     \* its caller: where it is in addRunes and what it received
    panicked  \* a run-time panic has ended the program

tvars == <<trie, last>>
vvars == <<vtrie, pat, iter, prod, cons, panicked>>
vars == <<trie, last, vtrie, pat, iter, prod, cons, panicked>>

\* NewTrie: a node that is no leaf, has no value and no children.
NewNode == [leaf |-> FALSE, value |-> Nil]
NewTrie == (<<>> :> NewNode)

\* p.children of the node at path p: the runes with a child node.
children(t, p) ==
    {q[Len(q)] : q \in {x \in DOMAIN t : Len(x) = Len(p) + 1
                                          /\ SubSeq(x, 1, Len(p)) = p}}

\* delete(p.children, r): the node at path c and all below it become garbage.
deleteChild(t, c) ==
    [q \in {x \in DOMAIN t : ~(Len(x) >= Len(c) /\ SubSeq(x, 1, Len(c)) = c)}
        |-> t[q]]


\* ---------------------------------------------------------- trie.go: Trie
\* The nodes that inserting the runes rs adds below the nodes of t.
NewNodes(t, rs) == Cardinality({k \in 1..Len(rs) : SubSeq(rs, 1, k) \notin DOMAIN t})

\* addRunes: walks the runes of r down from node p, creating the missing
\* nodes, marks the last node a leaf and returns it (with the new trie).
\* addRunes that forgets to mark the last node.
RECURSIVE addRunesNoLeaf(_, _, _)
addRunesNoLeaf(t, p, r) ==
    IF r = <<>>
    THEN [t |-> t, node |-> p]
    ELSE LET n == Append(p, DecodeRune(r).rune)
             t1 == IF n \in DOMAIN t THEN t ELSE (n :> NewNode) @@ t
         IN  addRunesNoLeaf(t1, n, DropRune(r))

\* addRunes that makes one node per byte of the string.
RECURSIVE addRunesPerByte(_, _, _)
addRunesPerByte(t, p, r) ==
    IF r = <<>>
    THEN [t |-> [t EXCEPT ![p].leaf = TRUE], node |-> p]
    ELSE LET n == Append(p, Head(r))
             t1 == IF n \in DOMAIN t THEN t ELSE (n :> NewNode) @@ t
         IN  addRunesPerByte(t1, n, Tail(r))

\* addRunes that puts a new node in place of the last node of the path.
RECURSIVE addRunesNewLast(_, _, _)
addRunesNewLast(t, p, r) ==
    IF r = <<>>
    THEN [t |-> [t EXCEPT ![p].leaf = TRUE], node |-> p]
    ELSE LET n == Append(p, DecodeRune(r).rune)
             t1 == IF n \in DOMAIN t /\ DropRune(r) # <<>> THEN t
                   ELSE (n :> NewNode) @@ deleteChild(t, n)
         IN  addRunesNewLast(t1, n, DropRune(r))

RECURSIVE addRunes(_, _, _)
addRunes(t, p, r) ==
    IF r = <<>>
    THEN [t |-> [t EXCEPT ![p].leaf = TRUE], node |-> p]
    ELSE LET n == Append(p, DecodeRune(r).rune)
             t1 == IF n \in DOMAIN t THEN t ELSE (n :> NewNode) @@ t
         IN  addRunes(t1, n, DropRune(r))

\* AddString: the trie after AddString(s).
AddStringTrie(t, s) ==
    IF Len(s) = 0 THEN t ELSE addRunes(t, <<>>, s).t

\* AddValue that keeps a value that is already set.
AddValueTrieKeep(t, s, v) ==
    IF Len(s) = 0 THEN t
    ELSE LET a == addRunes(t, <<>>, s)
         IN  IF a.t[a.node].value # Nil THEN a.t
             ELSE [a.t EXCEPT ![a.node].value = v]

\* AddValue: the trie after AddValue(s, v).
AddValueTrie(t, s, v) ==
    IF Len(s) = 0 THEN t
    ELSE LET a == addRunes(t, <<>>, s)
         IN  [a.t EXCEPT ![a.node].value = v]

\* removeRunes: removes the runes of r below node p; returns the new trie
\* and whether node p is empty (has no children) following the removal.
\* removeRunes that never prunes an emptied child.
RECURSIVE removeRunesNoPrune(_, _, _)
removeRunesNoPrune(t, p, r) ==
    IF r = <<>>
    THEN LET t1 == [t EXCEPT ![p] = [leaf |-> FALSE, value |-> Nil]]
         IN  [t |-> t1, empty |-> children(t1, p) = {}]
    ELSE LET c == Append(p, DecodeRune(r).rune)
             ok == c \in DOMAIN t
             sub == removeRunesNoPrune(t, c, DropRune(r))
             t2 == IF ok THEN sub.t ELSE t
         IN  [t |-> t2, empty |-> children(t2, p) = {}]

\* removeRunes that clears the leaf flag only of a node without children.
RECURSIVE removeRunesKeepLeaf(_, _, _)
removeRunesKeepLeaf(t, p, r) ==
    IF r = <<>>
    THEN LET t1 == IF children(t, p) = {}
                   THEN [t EXCEPT ![p] = [leaf |-> FALSE, value |-> Nil]]
                   ELSE [t EXCEPT ![p].value = Nil]
         IN  [t |-> t1, empty |-> children(t1, p) = {}]
    ELSE LET c == Append(p, DecodeRune(r).rune)
             ok == c \in DOMAIN t
             sub == removeRunesKeepLeaf(t, c, DropRune(r))
             t2 == IF ok /\ sub.empty THEN deleteChild(sub.t, c)
                   ELSE IF ok THEN sub.t ELSE t
         IN  [t |-> t2, empty |-> children(t2, p) = {}]

\* removeRunes that prunes the last node of the path and none above it.
RECURSIVE removeRunesNoCascade(_, _, _)
removeRunesNoCascade(t, p, r) ==
    IF r = <<>>
    THEN LET t1 == [t EXCEPT ![p] = [leaf |-> FALSE, value |-> Nil]]
         IN  [t |-> t1, empty |-> children(t1, p) = {}]
    ELSE LET c == Append(p, DecodeRune(r).rune)
             ok == c \in DOMAIN t
             sub == removeRunesNoCascade(t, c, DropRune(r))
             t2 == IF ok /\ sub.empty THEN deleteChild(sub.t, c)
                   ELSE IF ok THEN sub.t ELSE t
         IN  [t |-> t2, empty |-> FALSE]

\* removeRunes that clears the leaf flag and keeps the value.
RECURSIVE removeRunesKeepValue(_, _, _)
removeRunesKeepValue(t, p, r) ==
    IF r = <<>>
    THEN LET t1 == [t EXCEPT ![p].leaf = FALSE]
         IN  [t |-> t1, empty |-> children(t1, p) = {}]
    ELSE LET c == Append(p, DecodeRune(r).rune)
             ok == c \in DOMAIN t
             sub == removeRunesKeepValue(t, c, DropRune(r))
             t2 == IF ok /\ sub.empty THEN deleteChild(sub.t, c)
                   ELSE IF ok THEN sub.t ELSE t
         IN  [t |-> t2, empty |-> children(t2, p) = {}]

RECURSIVE removeRunes(_, _, _)
removeRunes(t, p, r) ==
    IF r = <<>>
    THEN LET t1 == [t EXCEPT ![p] = [leaf |-> FALSE, value |-> Nil]]
         IN  [t |-> t1, empty |-> children(t1, p) = {}]
    ELSE LET c == Append(p, DecodeRune(r).rune)
             ok == c \in DOMAIN t
             sub == removeRunes(t, c, DropRune(r))
             t2 == IF ok /\ sub.empty THEN deleteChild(sub.t, c)
                   ELSE IF ok THEN sub.t ELSE t
         IN  [t |-> t2, empty |-> children(t2, p) = {}]

\* Remove that reports whether the trie was empty before the removal.
RemoveResultStale(t, s) ==
    IF Len(s) = 0 THEN [t |-> t, empty |-> children(t, <<>>) = {}]
    ELSE [t |-> removeRunes(t, <<>>, s).t, empty |-> children(t, <<>>) = {}]

\* Remove: the trie after Remove(s) and the boolean it returns.
RemoveResult(t, s) ==
    IF Len(s) = 0 THEN [t |-> t, empty |-> children(t, <<>>) = {}]
    ELSE removeRunes(t, <<>>, s)

\* includes: the node that the runes of r lead to from p, if it is a leaf.
RECURSIVE includes(_, _, _)
includes(t, p, r) ==
    IF r = <<>>
    THEN IF t[p].leaf THEN [found |-> TRUE, node |-> p]
         ELSE [found |-> FALSE, node |-> <<>>]
    ELSE LET c == Append(p, DecodeRune(r).rune)
         IN  IF c \notin DOMAIN t THEN [found |-> FALSE, node |-> <<>>]
             ELSE includes(t, c, DropRune(r))

Contains(t, s) ==
    IF Len(s) = 0 THEN FALSE ELSE includes(t, <<>>, s).found

\* GetValue that takes a nil value for absence.
GetValueSentinel(t, s) ==
    IF Len(s) = 0 THEN [value |-> Nil, found |-> FALSE]
    ELSE LET l == includes(t, <<>>, s)
         IN  IF ~l.found THEN [value |-> Nil, found |-> FALSE]
             ELSE [value |-> t[l.node].value, found |-> t[l.node].value # Nil]

\* GetValue: the (value, found) pair.
GetValue(t, s) ==
    IF Len(s) = 0 THEN [value |-> Nil, found |-> FALSE]
    ELSE LET l == includes(t, <<>>, s)
         IN  IF ~l.found THEN [value |-> Nil, found |-> FALSE]
             ELSE [value |-> t[l.node].value, found |-> TRUE]

\* buildMembers: the strings of the leaves at and below node p, each
\* prefixed by prefix.  Go iterates the children map in an unspecified
\* order; rs is the set of children still to visit and the order is some
\* fixed one.
RECURSIVE buildMembers(_, _, _)
RECURSIVE buildChildren(_, _, _, _)
buildChildren(t, p, prefix, rs) ==
    IF rs = {} THEN <<>>
    ELSE LET r == CHOOSE x \in rs : TRUE
         IN  buildMembers(t, Append(p, r), prefix \o EncodeRune(r))
             \o buildChildren(t, p, prefix, rs \ {r})

buildMembers(t, p, prefix) ==
    (IF t[p].leaf THEN <<prefix>> ELSE <<>>)
    \o buildChildren(t, p, prefix, children(t, p))

\* The order of sort.Strings: byte-wise lexicographic.
RECURSIVE LessString(_, _)
LessString(a, b) ==
    IF b = <<>> THEN FALSE
    ELSE IF a = <<>> THEN TRUE
    ELSE IF a[1] # b[1] THEN a[1] < b[1]
    ELSE LessString(Tail(a), Tail(b))

\* Insertion with the comparison reversed.
RECURSIVE insertSortedDesc(_, _)
insertSortedDesc(x, l) ==
    IF l = <<>> THEN <<x>>
    ELSE IF LessString(x, Head(l))
         THEN <<Head(l)>> \o insertSortedDesc(x, Tail(l))
    ELSE <<x>> \o l

\* sort.Strings, as an insertion sort.
RECURSIVE insertSorted(_, _)
insertSorted(x, l) ==
    IF l = <<>> THEN <<x>>
    ELSE IF LessString(Head(l), x) THEN <<Head(l)>> \o insertSorted(x, Tail(l))
    ELSE <<x>> \o l

RECURSIVE SortStrings(_)
SortStrings(l) ==
    IF l = <<>> THEN <<>> ELSE insertSorted(Head(l), SortStrings(Tail(l)))

\* Members: all member strings, in order.
Members(t) == SortStrings(buildMembers(t, <<>>, <<>>))

\* Size: the number of nodes below node p.
RECURSIVE sizeBelow(_, _)
RECURSIVE sizeChildren(_, _, _)
sizeChildren(t, p, rs) ==
    IF rs = {} THEN 0
    ELSE LET r == CHOOSE x \in rs : TRUE
         IN  sizeBelow(t, Append(p, r)) + sizeChildren(t, p, rs \ {r})

sizeBelow(t, p) == Cardinality(children(t, p)) + sizeChildren(t, p, children(t, p))

Size(t) == sizeBelow(t, <<>>)

\* AllSubstrings: the loop over the (pos, rune) pairs rg of s from node p,
\* with v the strings collected so far.
RECURSIVE allSubstringsLoop(_, _, _, _, _)
allSubstringsLoop(t, s, rg, p, v) ==
    IF rg = <<>> THEN v
    ELSE LET pos == Head(rg).pos
             child == Append(p, Head(rg).rune)
         IN  IF child \notin DOMAIN t THEN v
             ELSE allSubstringsLoop(t, s, Tail(rg), child,
                      IF t[child].leaf THEN Append(v, Slice(s, 0, pos)) ELSE v)

AllSubstrings(t, s) == allSubstringsLoop(t, s, RangeString(s), <<>>, <<>>)

\* The loop of AllSubstringsAndValues with every rune taken to be one byte.
RECURSIVE allSubstringsAndValuesLoopByte(_, _, _, _, _, _)
allSubstringsAndValuesLoopByte(t, s, rg, p, sv, vv) ==
    IF rg = <<>> THEN [sv |-> sv, vv |-> vv]
    ELSE LET pos == Head(rg).pos
             child == Append(p, Head(rg).rune)
         IN  IF child \notin DOMAIN t THEN [sv |-> sv, vv |-> vv]
             ELSE IF t[child].leaf
                  THEN allSubstringsAndValuesLoopByte(t, s, Tail(rg), child,
                           Append(sv, Slice(s, 0, pos + 1)),
                           Append(vv, t[child].value))
                  ELSE allSubstringsAndValuesLoopByte(t, s, Tail(rg), child, sv, vv)

\* AllSubstringsAndValues: the same loop, collecting strings sv and values vv.
RECURSIVE allSubstringsAndValuesLoop(_, _, _, _, _, _)
allSubstringsAndValuesLoop(t, s, rg, p, sv, vv) ==
    IF rg = <<>> THEN [sv |-> sv, vv |-> vv]
    ELSE LET pos == Head(rg).pos
             rune == Head(rg).rune
             child == Append(p, rune)
         IN  IF child \notin DOMAIN t THEN [sv |-> sv, vv |-> vv]
             ELSE IF t[child].leaf
                  THEN allSubstringsAndValuesLoop(t, s, Tail(rg), child,
                           Append(sv, Slice(s, 0, pos + RuneLen(rune))),
                           Append(vv, t[child].value))
                  ELSE allSubstringsAndValuesLoop(t, s, Tail(rg), child, sv, vv)

AllSubstringsAndValues(t, s) ==
    allSubstringsAndValuesLoop(t, s, RangeString(s), <<>>, <<>>, <<>>)

\* ------------------------------------------------ value_trie.go: ValueTrie
\* NewValueTrie: a node with value 0 that is no leaf and has no children.
NewValueNode == [leaf |-> FALSE, value |-> 0]
NewValueTrie == (<<>> :> NewValueNode)

\* The capacity of the channel AddPatternString makes.
ChanCap == 40

\* rune >= rune0 && rune <= rune9, and the same test on a byte.
IsDigit(r) == r >= 48 /\ r <= 57

\* strings.Map with the function that drops the digits: the pure string.
RECURSIVE pure(_)
pure(s) ==
    IF s = <<>> THEN <<>>
    ELSE (IF IsDigit(DecodeRune(s).rune) THEN <<>>
          ELSE EncodeRune(DecodeRune(s).rune)) \o pure(DropRune(s))

\* The body of the goroutine's range loop for the pair e of s: what it
\* sends, if anything.  The look-ahead reads the byte s[pos+1].
sendOf(s, e) ==
    IF IsDigit(e.rune) THEN [send |-> FALSE, val |-> 0]
    ELSE IF e.pos < Len(s) - 1
         THEN LET next == s[e.pos + 2]
              IN  IF next <= 57 /\ next >= 48
                  THEN [send |-> TRUE, val |-> next - 48]
                  ELSE [send |-> TRUE, val |-> 0]
         ELSE [send |-> FALSE, val |-> 0]

\* ValueTrie.removeRunes: as Trie.removeRunes, but the value stays.
RECURSIVE ValueTrie_removeRunes(_, _, _)
ValueTrie_removeRunes(t, p, r) ==
    IF r = <<>>
    THEN LET t1 == [t EXCEPT ![p].leaf = FALSE]
         IN  [t |-> t1, empty |-> children(t1, p) = {}]
    ELSE LET c == Append(p, DecodeRune(r).rune)
             ok == c \in DOMAIN t
             sub == ValueTrie_removeRunes(t, c, DropRune(r))
             t2 == IF ok /\ sub.empty THEN deleteChild(sub.t, c)
                   ELSE IF ok THEN sub.t ELSE t
         IN  [t |-> t2, empty |-> children(t2, p) = {}]

ValueTrie_RemoveResult(t, s) ==
    IF Len(s) = 0 THEN [t |-> t, empty |-> children(t, <<>>) = {}]
    ELSE ValueTrie_removeRunes(t, <<>>, s)

\* ValueTrie.includes and ValueTrie.Contains.
RECURSIVE ValueTrie_includes(_, _, _)
ValueTrie_includes(t, p, r) ==
    IF r = <<>> THEN t[p].leaf
    ELSE LET c == Append(p, DecodeRune(r).rune)
         IN  IF c \notin DOMAIN t THEN FALSE
             ELSE ValueTrie_includes(t, c, DropRune(r))

ValueTrie_Contains(t, s) ==
    IF Len(s) = 0 THEN FALSE ELSE ValueTrie_includes(t, <<>>, s)

\* ValueTrie.Size.
ValueTrie_Size(t) == sizeBelow(t, <<>>)

\* ValueTrie.buildMembers: the strings of the leaves at and below node p,
\* each prefixed by prefix; with includeValues the value of a child follows
\* its rune as the character '0' + value, a zero only with includeZeroes.
RECURSIVE ValueTrie_buildMembers(_, _, _, _, _)
RECURSIVE ValueTrie_buildChildren(_, _, _, _, _, _)
ValueTrie_buildChildren(t, p, prefix, includeValues, includeZeroes, rs) ==
    IF rs = {} THEN <<>>
    ELSE LET r == CHOOSE x \in rs : TRUE
             child == Append(p, r)
             substr == prefix \o EncodeRune(r) \o
                       (IF includeValues /\ (t[child].value # 0 \/ includeZeroes)
                        THEN EncodeRune(48 + t[child].value) ELSE <<>>)
         IN  ValueTrie_buildMembers(t, child, substr, includeValues, includeZeroes)
             \o ValueTrie_buildChildren(t, p, prefix, includeValues,
                                        includeZeroes, rs \ {r})

ValueTrie_buildMembers(t, p, prefix, includeValues, includeZeroes) ==
    (IF t[p].leaf THEN <<prefix>> ELSE <<>>)
    \o ValueTrie_buildChildren(t, p, prefix, includeValues, includeZeroes,
                               children(t, p))

\* ValueTrie.Members and ValueTrie.PatternMembers.
ValueTrie_Members(t) ==
    SortStrings(ValueTrie_buildMembers(t, <<>>, <<>>, FALSE, FALSE))

PatternMembers(t, includeZeroes) ==
    SortStrings(ValueTrie_buildMembers(t, <<>>, <<>>, TRUE, includeZeroes))

\* The patterns: strings of letters and the digit '3'.
PatRunes == Runes \cup {51}
Patterns == {EncodeString(rs) : rs \in UNION {[1..k -> PatRunes] : k \in 0..MaxPatLen}}
\* The patterns of letters only that do not fit the channel.
LongPatterns == {[i \in 1..k |-> 97] : k \in (ChanCap + 1)..MaxLongPat}

\* --------------------------------------------------------------- actions
NoCall == [op |-> "none", arg |-> <<>>, val |-> Nil, ret |-> FALSE,
           had |-> FALSE, rep |-> FALSE]

\* The record of a call: had is Contains(arg) before the call, rep is
\* whether the call is a Remove that repeats the previous call (a Remove of
\* the same argument).  val is the value passed to AddValue; for a Remove
\* it is the value GetValue(arg) reported before the call.
Call(op, s, v, ret) ==
    [op |-> op, arg |-> s, val |-> v, ret |-> ret,
     had |-> Contains(trie, s),
     rep |-> (op = "Remove" /\ last.op = op /\ last.arg = s)]

Init ==
    /\ trie = NewTrie
    /\ last = NoCall
    /\ vtrie = NewValueTrie
    /\ pat = <<>>
    /\ iter = [buf |-> <<>>, closed |-> FALSE, twice |-> FALSE]
    /\ prod = [pc |-> "idle", idx |-> 1]
    /\ cons = [pc |-> "idle", node |-> <<>>, rest |-> <<>>,
               recv |-> <<>>, new |-> <<>>]
    /\ panicked = FALSE

AddString(s) ==
    /\ Cardinality(DOMAIN trie) - 1 + NewNodes(trie, RunesOf(s)) <= MaxNodes
    /\ trie' = AddStringTrie(trie, s)
    /\ last' = Call("AddString", s, Nil, FALSE)
    /\ UNCHANGED vvars

AddValue(s, v) ==
    /\ Cardinality(DOMAIN trie) - 1 + NewNodes(trie, RunesOf(s)) <= MaxNodes
    /\ trie' = AddValueTrie(trie, s, v)
    /\ last' = Call("AddValue", s, v, FALSE)
    /\ UNCHANGED vvars

Remove(s) ==
    /\ trie' = RemoveResult(trie, s).t
    /\ last' = Call("Remove", s, GetValue(trie, s).value,
                    RemoveResult(trie, s).empty)
    /\ UNCHANGED vvars

Next ==
    \/ \E s \in Inputs : AddString(s)
    \/ \E s \in Inputs, v \in Values : AddValue(s, v)
    \/ \E s \in Inputs : Remove(s)

Spec == Init /\ [][Next]_vars

\* AddPatternString up to the call of addRunes: makes the channel, spawns
\* the goroutine and computes the pure string.  The goroutine of a call
\* shares only that call's channel, so the next call is started after it.
AddPatternString(s) ==
    /\ ~panicked
    /\ cons.pc \in {"idle", "returned"}
    /\ prod.pc \in {"idle", "done"}
    /\ Cardinality(DOMAIN vtrie) - 1 + NewNodes(vtrie, RunesOf(pure(s))) <= MaxVNodes
    /\ pat' = s
    /\ iter' = [buf |-> <<>>, closed |-> FALSE, twice |-> FALSE]
    /\ prod' = [pc |-> "loop", idx |-> 1]
    /\ cons' = [pc |-> "addRunes", node |-> <<>>, rest |-> pure(s),
                recv |-> <<>>, new |-> <<>>]
    /\ UNCHANGED <<vtrie, panicked, tvars>>

\* `range s` for every pattern s, computed once.
RangeOf == [s \in Patterns \cup LongPatterns |-> RangeString(s)]

\* One iteration of the goroutine's range loop, or its exit.
ProducerLoop ==
    /\ ~panicked
    /\ prod.pc = "loop"
    /\ LET rg == RangeOf[pat]
       IN  IF prod.idx > Len(rg)
           THEN /\ prod' = [prod EXCEPT !.pc = "close"]
                /\ UNCHANGED <<iter, panicked>>
           ELSE LET o == sendOf(pat, rg[prod.idx])
                IN  IF ~o.send
                    THEN /\ prod' = [prod EXCEPT !.idx = @ + 1]
                         /\ UNCHANGED <<iter, panicked>>
                    ELSE IF iter.closed
                    THEN /\ panicked' = TRUE
                         /\ UNCHANGED <<iter, prod>>
                    ELSE /\ Len(iter.buf) < ChanCap
                         /\ iter' = [iter EXCEPT !.buf = Append(@, o.val)]
                         /\ prod' = [prod EXCEPT !.idx = @ + 1]
                         /\ UNCHANGED panicked
    /\ UNCHANGED <<vtrie, pat, cons, tvars>>

\* close(iter): the first close closes the channel.  A close of a closed
\* channel panics in Go 1 and passes in the Go of 2010 this file is written
\* in, so both outcomes are possible.
closeIter ==
    IF ~iter.closed
    THEN /\ iter' = [iter EXCEPT !.closed = TRUE]
         /\ UNCHANGED panicked
    ELSE /\ iter' = [iter EXCEPT !.twice = TRUE]
         /\ panicked' \in BOOLEAN

\* The goroutine closes its end of the channel and ends.
ProducerClose ==
    /\ ~panicked
    /\ prod.pc = "close"
    /\ closeIter
    /\ prod' = [prod EXCEPT !.pc = "done"]
    /\ UNCHANGED <<vtrie, pat, cons, tvars>>

\* ValueTrie.addRunes, one level of the recursion: at the end of the
\* reader the node becomes a leaf; otherwise a value is read from the
\* channel (blocking while it is open and empty), the child is created with
\* that value if there is none, and the walk goes on below it.
ValueTrie_addRunes ==
    /\ ~panicked
    /\ cons.pc = "addRunes"
    /\ IF cons.rest = <<>>
       THEN /\ vtrie' = [vtrie EXCEPT ![cons.node].leaf = TRUE]
            /\ cons' = [cons EXCEPT !.pc = "close"]
            /\ UNCHANGED iter
       ELSE /\ iter.buf # <<>> \/ iter.closed
            /\ LET val == IF iter.buf # <<>> THEN Head(iter.buf) ELSE 0
                   n == Append(cons.node, DecodeRune(cons.rest).rune)
               IN  /\ iter' = [iter EXCEPT !.buf = IF @ # <<>> THEN Tail(@) ELSE @]
                   /\ vtrie' = IF n \in DOMAIN vtrie THEN vtrie
                               ELSE (n :> [NewValueNode EXCEPT !.value = val]) @@ vtrie
                   /\ cons' = [cons EXCEPT !.node = n,
                                           !.rest = DropRune(cons.rest),
                                           !.recv = Append(@, val),
                                           !.new = Append(@, n \notin DOMAIN vtrie)]
    /\ UNCHANGED <<pat, prod, panicked, tvars>>

\* The close(iter) of AddPatternString after addRunes, and its return; a
\* close that panics does not return.
CallerClose ==
    /\ ~panicked
    /\ cons.pc = "close"
    /\ closeIter
    /\ cons' = [cons EXCEPT !.pc = IF panicked' THEN "close" ELSE "returned"]
    /\ UNCHANGED <<vtrie, pat, prod, tvars>>

\* ValueTrie.Remove, between two calls of AddPatternString.
ValueTrie_Remove(s) ==
    /\ ~panicked
    /\ cons.pc \in {"idle", "returned"}
    /\ vtrie' = ValueTrie_RemoveResult(vtrie, s).t
    /\ UNCHANGED <<pat, iter, prod, cons, panicked, tvars>>

NextV ==
    \/ \E s \in Patterns : AddPatternString(s)
    \/ ProducerLoop
    \/ ProducerClose
    \/ ValueTrie_addRunes
    \/ CallerClose
    \/ \E s \in Inputs : ValueTrie_Remove(s)

SpecV == Init /\ [][NextV]_vars

\* One call of AddPatternString on a new ValueTrie, its pattern a short one
\* or a run of letters that is longer than the channel's capacity, with the
\* goroutine and the caller scheduled fairly.
FirstAddPatternString(s) ==
    /\ cons.pc = "idle"
    /\ pat' = s
    /\ iter' = [buf |-> <<>>, closed |-> FALSE, twice |-> FALSE]
    /\ prod' = [pc |-> "loop", idx |-> 1]
    /\ cons' = [pc |-> "addRunes", node |-> <<>>, rest |-> pure(s),
                recv |-> <<>>, new |-> <<>>]
    /\ UNCHANGED <<vtrie, panicked, tvars>>

NextLive ==
    \/ \E s \in Patterns \cup LongPatterns : FirstAddPatternString(s)
    \/ ProducerLoop
    \/ ProducerClose
    \/ ValueTrie_addRunes
    \/ CallerClose

SpecLive ==
    /\ Init /\ [][NextLive]_vars
    /\ WF_vars(ProducerLoop) /\ WF_vars(ProducerClose)
    /\ WF_vars(ValueTrie_addRunes) /\ WF_vars(CallerClose)


\* ------------------------------------------------------------ properties
IsPrefix(a, b) == Len(a) <= Len(b) /\ SubSeq(b, 1, Len(a)) = a

InSeq(x, l) == \E i \in 1..Len(l) : l[i] = x

\* The stored strings among the code-point prefixes of rs of length k and
\* more, shortest first.
RECURSIVE StoredPrefixes(_, _, _)
StoredPrefixes(t, rs, k) ==
    IF k > Len(rs) THEN <<>>
    ELSE (IF Contains(t, EncodeString(SubSeq(rs, 1, k)))
          THEN <<EncodeString(SubSeq(rs, 1, k))>> ELSE <<>>)
         \o StoredPrefixes(t, rs, k + 1)

\* C1: Remove(s) keeps every other stored string: a string t # s that is
\* contained before Remove(s) is contained after it.
C1_RemoveKeepsOthers ==
    [][last'.op = "Remove" =>
         \A t \in Strings :
             (t # last'.arg /\ Contains(trie, t)) => Contains(trie', t)]_vars

\* C2: after AddString(s) or AddValue(s, v) with s non-empty, Contains(s)
\* is true and s is among Members().
C2_AddThenContains ==
    (last.op \in {"AddString", "AddValue"} /\ last.arg # <<>>)
        => (Contains(trie, last.arg) /\ InSeq(last.arg, Members(trie)))

C2_Witness ==
    /\ last.op = "AddValue" /\ ~last.had
    /\ Len(last.arg) > Len(RunesOf(last.arg))
    /\ Len(Members(trie)) >= 2

\* C3: AllSubstrings(q) is in strictly increasing length order and each of
\* its strings is a prefix of q and a member of the trie.
C3_AllSubstringsSound ==
    \A q \in Inputs :
        LET r == AllSubstrings(trie, q)
        IN  /\ \A i \in 1..(Len(r) - 1) : Len(r[i]) < Len(r[i + 1])
            /\ \A i \in 1..Len(r) : IsPrefix(r[i], q) /\ Contains(trie, r[i])

\* C4: AllSubstringsAndValues(q) returns exactly the stored strings that
\* are prefixes of q, shortest first, and as many values, the i-th of them
\* the value GetValue returns for the i-th string.
C4_AllSubstringsAndValues ==
    \A rs \in RuneSeqs(MaxLen) :
        LET q == EncodeString(rs)
            r == AllSubstringsAndValues(trie, q)
        IN  /\ r.sv = StoredPrefixes(trie, rs, 1)
            /\ Len(r.vv) = Len(r.sv)
            /\ \A i \in 1..Len(r.sv) :
                   GetValue(trie, r.sv[i]) = [value |-> r.vv[i], found |-> TRUE]

C4_Witness ==
    \E rs \in RuneSeqs(MaxLen) :
        LET r == AllSubstringsAndValues(trie, EncodeString(rs))
        IN  /\ Len(r.sv) >= 2
            /\ rs[1] > 127
            /\ r.vv[1] # r.vv[2]

\* C5: Remove(s) of a string that is not contained changes neither
\* Members(), nor Size(), nor the value of any string.
C5_RemoveAbsentNoOp ==
    [][(last'.op = "Remove" /\ ~Contains(trie, last'.arg)) =>
         /\ Members(trie') = Members(trie)
         /\ Size(trie') = Size(trie)
         /\ \A t \in Strings : GetValue(trie', t) = GetValue(trie, t)]_vars

\* C6: after Remove(s), Contains(s) is false; a second consecutive
\* Remove(s) returns what the first returned and leaves the trie unchanged.
C6_RemoveIdempotent ==
    [][last'.op = "Remove" =>
         /\ ~Contains(trie', last'.arg)
         /\ (last.op = "Remove" /\ last.arg = last'.arg)
                => (last'.ret = last.ret /\ trie' = trie)]_vars

C6_Witness ==
    /\ last.op = "Remove" /\ last.rep
    /\ last.arg # <<>>
    /\ ~last.ret
    /\ last.arg \o <<97>> \in DOMAIN trie

\* C9: the found flag of GetValue(s) is Contains(s); a stored string with
\* a nil value yields (nil, true), an absent or empty string (nil, false).
C9_GetValueFound ==
    /\ \A s \in Inputs :
           /\ GetValue(trie, s).found = Contains(trie, s)
           /\ ~Contains(trie, s) => GetValue(trie, s) = [value |-> Nil, found |-> FALSE]
    /\ (last.op = "AddString" /\ ~last.had /\ last.arg # <<>>)
           => GetValue(trie, last.arg) = [value |-> Nil, found |-> TRUE]
    /\ (last.op = "AddValue" /\ last.val = Nil /\ last.arg # <<>>)
           => GetValue(trie, last.arg) = [value |-> Nil, found |-> TRUE]

C9_Witness ==
    /\ last.op = "AddValue" /\ last.val = Nil /\ last.arg # <<>> /\ last.had
    /\ \E s \in Strings : GetValue(trie, s) = [value |-> "v1", found |-> TRUE]
    /\ \E s \in Strings : ~Contains(trie, s)

\* C10: no node below the root is both no leaf and without children.
C10_NoDeadWeight ==
    \A p \in DOMAIN trie :
        p # <<>> => (trie[p].leaf \/ children(trie, p) # {})

C10_Witness ==
    /\ last.op = "Remove" /\ last.had
    /\ Size(trie) > 0
    /\ \E p \in DOMAIN trie : p # <<>> /\ ~trie[p].leaf

\* What the pattern with the runes rs denotes: its runes that are no digits,
\* and for each of them the digit that follows it, or 0.
NotDigit(r) == ~IsDigit(r)

ClaimPure(rs) == EncodeString(SelectSeq(rs, NotDigit))

RECURSIVE ClaimWeightsFrom(_, _)
ClaimWeightsFrom(rs, i) ==
    IF i > Len(rs) THEN <<>>
    ELSE (IF IsDigit(rs[i]) THEN <<>>
          ELSE IF i < Len(rs) /\ IsDigit(rs[i + 1]) THEN <<rs[i + 1] - 48>>
          ELSE <<0>>)
         \o ClaimWeightsFrom(rs, i + 1)

ClaimWeights(rs) == ClaimWeightsFrom(rs, 1)

\* C7: when the insertion of AddPatternString(pat) is done, the stored
\* string is pat without its digits, the weights read for its characters
\* are the digits that follow them in pat (0 where none follows), and each
\* node the call created holds the weight of its character.
C7_PatternDecoded ==
    cons.pc = "close" =>
        LET rs == RunesOf(pat)
            ps == RunesOf(ClaimPure(rs))
        IN  /\ cons.recv = ClaimWeights(rs)
            /\ ClaimPure(rs) # <<>> => ValueTrie_Contains(vtrie, ClaimPure(rs))
            /\ \A k \in 1..Len(cons.new) :
                   cons.new[k] => vtrie[SubSeq(ps, 1, k)].value = ClaimWeights(rs)[k]

\* C8: when the insertion of a pattern that starts with a digit is done
\* (its first character having no digit of its own), the stored string is
\* the pattern without its digits and the leading weight is kept: it is
\* the weight of the first character or the value of the root.
C8_LeadingWeightKept ==
    LET rs == RunesOf(pat)
    IN  (/\ cons.pc = "close"
         /\ Len(rs) >= 2 /\ IsDigit(rs[1]) /\ ~IsDigit(rs[2])
         /\ (Len(rs) >= 3 => ~IsDigit(rs[3])))
        => /\ ValueTrie_Contains(vtrie, ClaimPure(rs))
           /\ (cons.recv[1] = rs[1] - 48 \/ vtrie[<<>>].value = rs[1] - 48)

\* C11: the root is never a leaf and the empty string is never a member,
\* whatever was added (empty and digits-only patterns included) or removed.
C11_RootNeverLeaf ==
    /\ ~trie[<<>>].leaf
    /\ ~InSeq(<<>>, Members(trie))
    /\ ~vtrie[<<>>].leaf
    /\ ~InSeq(<<>>, ValueTrie_Members(vtrie))

\* The non-empty code-point prefixes of the strings of the sequence l.
PrefixesOf(l) ==
    UNION {{SubSeq(RunesOf(l[i]), 1, k) : k \in 1..Len(RunesOf(l[i]))}
           : i \in 1..Len(l)}

\* The length of the longest common prefix of the rune sequences a and b.
RECURSIVE CommonPrefixLen(_, _)
CommonPrefixLen(a, b) ==
    IF a = <<>> \/ b = <<>> \/ Head(a) # Head(b) THEN 0
    ELSE 1 + CommonPrefixLen(Tail(a), Tail(b))

\* C12: Size() is the number of nodes below the root, one per distinct
\* non-empty code-point prefix of the stored strings; with two stored
\* strings it is the sum of their lengths in code points less the length
\* of their common prefix.  The node of a string just added lies as many
\* levels below the root as the string has code points.
C12_SizeCountsNodes ==
    LET m == Members(trie)
    IN  /\ Size(trie) = Cardinality(DOMAIN trie \ {<<>>})
        /\ last.op \in {"AddString", "AddValue"} =>
               /\ RunesOf(last.arg) \in DOMAIN trie
               /\ Size(trie) >= Len(RunesOf(last.arg))
        /\ Size(trie) = Cardinality(PrefixesOf(m))
        /\ Len(m) = 2 =>
               Size(trie) = Len(RunesOf(m[1])) + Len(RunesOf(m[2]))
                            - CommonPrefixLen(RunesOf(m[1]), RunesOf(m[2]))

C12_Witness ==
    /\ last.op \in {"AddString", "AddValue"}
    /\ Len(Members(trie)) = 2
    /\ Size(trie) = 3
    /\ <<233>> \in DOMAIN trie /\ ~trie[<<233>>].leaf

\* C13: adding a string that is already present changes neither Size()
\* nor Members().
C13_ReAddNoChange ==
    [][(last'.op = "AddString" /\ Contains(trie, last'.arg)) =>
          /\ Size(trie') = Size(trie)
          /\ Members(trie') = Members(trie)]_vars

C13_Witness ==
    /\ last.op = "AddString" /\ last.had
    /\ Len(RunesOf(last.arg)) = 2
    /\ Len(Members(trie)) >= 2

\* C15: Remove(s) of a non-empty s returns true exactly when the trie has
\* no nodes below the root afterwards.
C15_RemoveReportsEmpty ==
    (last.op = "Remove" /\ last.arg # <<>>) =>
        (last.ret <=> Size(trie) = 0)

C15_Witness ==
    /\ last.op = "Remove" /\ last.arg # <<>>
    /\ last.had /\ last.ret
    /\ Size(trie) = 0

\* a comes strictly before b in the bytewise lexicographic order.
Before(a, b) ==
    \E k \in 0..Len(a) :
        /\ k <= Len(b)
        /\ SubSeq(a, 1, k) = SubSeq(b, 1, k)
        /\ \/ k = Len(a) /\ k < Len(b)
           \/ k < Len(a) /\ k < Len(b) /\ a[k + 1] < b[k + 1]

\* C16: Members() is in strictly ascending bytewise order (so without
\* duplicates), and a string is in it exactly when Contains reports it.
C16_MembersSortedExact ==
    LET m == Members(trie)
    IN  /\ \A i \in 1..(Len(m) - 1) : Before(m[i], m[i + 1])
        /\ \A i \in 1..Len(m) : m[i] \in Inputs
        /\ \A s \in Inputs : InSeq(s, m) <=> Contains(trie, s)

C16_Witness ==
    LET m == Members(trie)
    IN  /\ Len(m) = 3
        /\ Contains(trie, EncodeString(<<233>>))
        /\ Contains(trie, EncodeString(<<97, 233>>))

\* C20: AddValue(s, v) of a non-empty s makes GetValue(s) report (v, true),
\* whatever value s had; when s was present Size() does not change; no other
\* string's GetValue changes.  AddString of a present string keeps its value.
C20_AddValueOverwrites ==
    [][/\ (last'.op = "AddValue" /\ last'.arg # <<>>) =>
            /\ GetValue(trie', last'.arg) = [value |-> last'.val, found |-> TRUE]
            /\ Contains(trie, last'.arg) => Size(trie') = Size(trie)
            /\ \A t \in Inputs \ {last'.arg} :
                   GetValue(trie', t) = GetValue(trie, t)
       /\ (last'.op = "AddString" /\ Contains(trie, last'.arg)) =>
            GetValue(trie', last'.arg) = GetValue(trie, last'.arg)]_vars

C20_Witness ==
    /\ last.op = "AddValue" /\ last.had /\ last.val = Nil
    /\ Size(trie) >= 2
    /\ \E t \in Inputs \ {last.arg} : GetValue(trie, t).value # Nil

\* C14: when AddPatternString has returned, its goroutine has ended and
\* the channel holds no value that was not read.
C14_ReturnAfterWorker ==
    cons.pc = "returned" => (prod.pc = "done" /\ iter.buf = <<>>)

\* C17: when the insertion of AddPatternString(pat) is done, every node on
\* the path of the pure string holds the weight read for its character,
\* the nodes that were there before the call included.
C17_PathHoldsWeights ==
    cons.pc = "close" =>
        \A k \in 1..Len(cons.recv) :
            vtrie[SubSeq(cons.node, 1, k)].value = cons.recv[k]

\* C18: when the insertion of a pattern without a leading digit (and
\* without the digit 0) into an empty trie is done, PatternMembers(false)
\* is the pattern itself and nothing else.
C18_PatternRoundTrip ==
    LET rs == RunesOf(pat)
    IN  (/\ cons.pc = "close"
         /\ rs # <<>> => ~IsDigit(rs[1])
         /\ \A k \in 1..Len(rs) : rs[k] # 48
         /\ \A k \in 1..Len(cons.new) : cons.new[k]
         /\ ValueTrie_Size(vtrie) = Len(cons.new)
         /\ vtrie[<<>>].leaf => cons.node = <<>>)
        => PatternMembers(vtrie, FALSE) = <<pat>>

\* C19: AllSubstrings(q) returns the strings AllSubstringsAndValues(q)
\* returns, in the same order.
C19_SubstringsAgree ==
    \A q \in Inputs :
        AllSubstrings(trie, q) = AllSubstringsAndValues(trie, q).sv

\* C21: Remove clears the leaf flag and the value of the node together:
\* no node that is not a leaf holds a value, after Remove(s) GetValue(s) is
\* (nil, false) whatever value s had, and an AddString(s) that follows gives
\* (nil, true), also when the node of s was kept for its children.
C21_RemoveClearsValue ==
    [][/\ \A q \in DOMAIN trie' : ~trie'[q].leaf => trie'[q].value = Nil
       /\ last'.op = "Remove" =>
              GetValue(trie', last'.arg) = [value |-> Nil, found |-> FALSE]
       /\ (last'.op = "AddString" /\ last'.arg # <<>> /\ ~last'.had) =>
              GetValue(trie', last'.arg) = [value |-> Nil, found |-> TRUE]]_vars

C21_Witness ==
    /\ last.op = "Remove" /\ last.had /\ last.val # Nil
    /\ RunesOf(last.arg) \in DOMAIN trie
    /\ children(trie, RunesOf(last.arg)) # {}

\* C24: a Remove takes its argument out of the stored strings and brings
\* no string in, so removing every stored string leaves none; and when a
\* Remove leaves no stored string, Size() is 0, Members() is empty and the
\* Remove returned true.
C24_RemoveAllEmpties ==
    [][last'.op = "Remove" =>
          /\ \A s \in Strings :
                 Contains(trie', s) => (Contains(trie, s) /\ s # last'.arg)
          /\ (\A s \in Strings : ~Contains(trie', s)) =>
                 /\ Size(trie') = 0
                 /\ Members(trie') = <<>>
                 /\ last'.ret]_vars

C24_Witness ==
    /\ last.op = "Remove" /\ last.had /\ last.val # Nil
    /\ Len(RunesOf(last.arg)) = 2
    /\ Members(trie) = <<>> /\ Size(trie) = 0 /\ last.ret

\* A call of AddPatternString ends: it returns or the program panics.
\* Neither the goroutine nor the caller waits on the channel for ever.
AddPatternStringEnds ==
    (cons.pc = "addRunes") ~> (cons.pc = "returned" \/ panicked)

\* C22: under fair scheduling of the goroutine and the caller, a call of
\* AddPatternString returns, whatever the pattern.
C22_AddPatternStringReturns ==
    (cons.pc = "addRunes") ~> (cons.pc = "returned")

\* C23: the channel of a call is closed once: no close is executed on the
\* closed channel, and no send on it (which would panic).
C23_ClosedOnce ==
    /\ ~iter.twice
    /\ ~panicked

=============================================================================
